---- MODULE Spec2Model ----
(***************************************************************************)
(* Model of scripts/pull_outputs.py: the recursive download of a Cromwell  *)
(* outputs document (download_outputs / download), the conditional copy    *)
(* (download_from_gcs) and the JSON loader (read_json).                    *)
(*                                                                         *)
(* Representation.  A Python string that is used as a path or a locator is *)
(* the sequence of its "/"-separated segments: "gs://bucket/a" is          *)
(* <<"gs:", "", "bucket", "a">>, "./out" is <<".", "out">>, "" is <<"">>.  *)
(* A pathlib.Path is the sequence of its parts (relative paths only).      *)
(* A dotted output name "wf.task.bam" is the sequence of its "."-separated *)
(* parts.  A JSON value is a record [t, s, items]: t is the Python type,   *)
(* s the segments of a string, items the (key, value) pairs of a dict in   *)
(* insertion order or the elements of a list (with key "").                *)
(*                                                                         *)
(* The root of an absolute path is not kept: "/tmp" has the one part "tmp".*)
(* The external copy is gsutil cp -n; whether an invocation succeeds is    *)
(* given by an oracle, one exit status per invocation.  A Python exception *)
(* ends the call and the process (pc = "crashed").                         *)
(***************************************************************************)
EXTENDS Integers, Sequences, FiniteSets, TLC

VARIABLES
    job,      \* the call under study: operation and arguments
    files,    \* local filesystem: regular files, path -> content
    dirs,     \* local filesystem: directories (set of paths)
    DRYRUN,   \* the module-level flag
    pc,       \* "start" | "ready" | "crashed"
    runs      \* one record per completed call: what it did

vars == <<job, files, dirs, DRYRUN, pc, runs>>

\* ------------------------------------------------------------------ bounds
MaxRuns == 2      \* how many times the call is repeated
MaxLen == 2       \* longest list / largest dict of the enumerated trees

\* ------------------------------------------------------- program constants
DEFAULT_DRYRUN == FALSE

\* ------------------------------------------------------------ sequences
Last(s) == s[Len(s)]
Front(s) == SubSeq(s, 1, Len(s) - 1)

RECURSIVE DropDots(_)
DropDots(s) ==
    IF s = <<>> THEN <<>>
    ELSE IF Head(s) = "" \/ Head(s) = "." THEN DropDots(Tail(s))
    ELSE <<Head(s)>> \o DropDots(Tail(s))

\* pathlib.Path(s): the parts of a relative path; empty and "." segments go
Path(s) == DropDots(s)

\* str(Path): the path as a string again; the empty path prints as "."
PathStr(p) == IF p = <<>> THEN <<".">> ELSE p

\* Path(s).name: the final part, "" when there is none
PathName(s) == IF Path(s) = <<>> THEN "" ELSE Last(Path(s))

\* Path(p).parent
PathParent(p) == IF p = <<>> THEN <<>> ELSE Front(p)

\* f"{a}/{b}" on strings kept as segments
Slash(a, b) == a \o b

\* value.startswith("gs://")
StartsWithGs(s) == Len(s) >= 3 /\ s[1] = "gs:" /\ s[2] = ""

\* subdir is None (<<>>) or a one-segment string <<k>>;  `subdir or ''`
None == <<>>
SubdirOrEmpty(subdir) ==
    IF subdir = None \/ subdir = <<"">> THEN <<"">> ELSE subdir

\* ------------------------------------------------------------ JSON values
VStr(s) == [t |-> "str", s |-> s, items |-> <<>>]
VNull == [t |-> "null", s |-> <<>>, items |-> <<>>]
VNum == [t |-> "int", s |-> <<>>, items |-> <<>>]
VBool == [t |-> "bool", s |-> <<>>, items |-> <<>>]
VList(vs) == [t |-> "list", s |-> <<>>,
              items |-> [i \in 1..Len(vs) |-> [k |-> "", v |-> vs[i]]]]
VDict(kvs) == [t |-> "dict", s |-> <<>>, items |-> kvs]
KV(k, v) == [k |-> k, v |-> v]
VNone == [t |-> "no value", s |-> <<>>, items |-> <<>>]   \* nothing was returned

\* ------------------------------------------------- the local filesystem
\* proper and improper prefixes of a path, the empty path (".") left out
Prefixes(p) == {SubSeq(p, 1, n) : n \in 1..Len(p)}

\* Path(dest).is_file()
is_file(fs, p) == p \in DOMAIN fs.files

\* os.makedirs(p, exist_ok=True): raises when p or one of its ancestors is a
\* regular file (and then creates nothing), otherwise creates what is missing
makedirsError(fs, p) ==
    IF p \in DOMAIN fs.files THEN "FileExistsError"
    ELSE IF \E q \in Prefixes(p) : q \in DOMAIN fs.files THEN "NotADirectoryError"
    ELSE "none"

makedirs(fs, p) ==
    IF makedirsError(fs, p) # "none" THEN fs
    ELSE [fs EXCEPT !.dirs = @ \cup Prefixes(p)]

\* the bytes of the remote object a locator names
ManifestGood == <<"gs:", "", "bucket", "manifest.json">>
ManifestBad == <<"gs:", "", "bucket", "broken.json">>
RemoteBytes(src) ==
    IF src = ManifestGood THEN <<"[", "null", ",", "[", "]", "]">>
    ELSE IF src = ManifestBad THEN <<"[", "null">>
    ELSE <<"object">> \o src

\* gsutil -q cp -n src dest, when the transfer succeeds: never overwrites; a
\* destination that is a directory receives the object under its own name
gsutil_cp(fs, src, dest) ==
    LET target == IF dest \in fs.dirs THEN dest \o <<PathName(src)>> ELSE dest
    IN  IF target \in DOMAIN fs.files \/ target \in fs.dirs THEN fs
        ELSE [fs EXCEPT !.files = @ @@ (target :> RemoteBytes(src))]

\* ------------------------------------------------------------ one call
\* What a call has done so far.  oracle is the list of exit statuses the
\* next invocations of the external copy are going to have.
NewRun(fs, oracle) ==
    [fs |-> fs, log |-> <<>>, calls |-> <<>>, copies |-> <<>>, mkdirs |-> <<>>,
     raised |-> "none", ret |-> VNone, oracle |-> oracle]

LogLine(level, msg, a, b) == [level |-> level, msg |-> msg, a |-> a, b |-> b]
Logged(st, line) == [st EXCEPT !.log = Append(@, line)]

\* subprocess.call(['gsutil', '-q', 'cp', '-n', src, dest]); the exit status
\* is dropped
subprocess_call(st, src, dest) ==
    LET ok == Head(st.oracle)
        fs2 == IF ok THEN gsutil_cp(st.fs, src, dest) ELSE st.fs
    IN  [st EXCEPT !.fs = fs2,
                   !.oracle = Tail(@),
                   !.copies = Append(@, [src |-> src, dest |-> dest, ok |-> ok,
                                         existed |-> is_file(st.fs, dest),
                                         created |-> is_file(fs2, dest)
                                                     /\ ~ is_file(st.fs, dest)])]

\* variant: the copy is made whether or not the destination is a file
download_from_gcs_unchecked(st, src, dest, dry) ==
    IF st.raised # "none" THEN st
    ELSE
    LET called == [st EXCEPT !.calls = Append(@, [src |-> src, dest |-> Path(dest)]),
                             !.mkdirs = Append(@, PathParent(Path(dest)))]
        err == makedirsError(st.fs, PathParent(Path(dest)))
        made == [called EXCEPT !.fs = makedirs(@, PathParent(Path(dest)))]
        told == Logged(made, LogLine("INFO", "Downloading", src, Path(dest)))
    IN  IF err # "none" THEN [called EXCEPT !.raised = err]
        ELSE IF ~ dry THEN subprocess_call(told, src, Path(dest)) ELSE told

\* variant: the copy is made whether or not DRYRUN is set
download_from_gcs_ignoresDryrun(st, src, dest, dry) ==
    IF st.raised # "none" THEN st
    ELSE
    LET called == [st EXCEPT !.calls = Append(@, [src |-> src, dest |-> Path(dest)]),
                             !.mkdirs = Append(@, PathParent(Path(dest)))]
        err == makedirsError(st.fs, PathParent(Path(dest)))
        made == [called EXCEPT !.fs = makedirs(@, PathParent(Path(dest)))]
    IN  IF err # "none" THEN [called EXCEPT !.raised = err]
        ELSE IF ~ is_file(made.fs, Path(dest))
        THEN subprocess_call(Logged(made, LogLine("INFO", "Downloading", src, Path(dest))),
                             src, Path(dest))
        ELSE Logged(made, LogLine("INFO", "File already exists, skipping download",
                                  src, Path(dest)))

download_from_gcs(st, src, dest, dry) ==
    IF st.raised # "none" THEN st
    ELSE
    LET called == [st EXCEPT !.calls = Append(@, [src |-> src, dest |-> Path(dest)]),
                             !.mkdirs = Append(@, PathParent(Path(dest)))]
        err == makedirsError(st.fs, PathParent(Path(dest)))
        made == [called EXCEPT !.fs = makedirs(@, PathParent(Path(dest)))]
    IN  IF err # "none" THEN [called EXCEPT !.raised = err]
        ELSE IF ~ is_file(made.fs, Path(dest))
        THEN LET told == Logged(made, LogLine("INFO", "Downloading", src, Path(dest)))
             IN  IF ~ dry THEN subprocess_call(told, src, Path(dest)) ELSE told
        ELSE Logged(made, LogLine("INFO", "File already exists, skipping download",
                                  src, Path(dest)))

RECURSIVE download(_, _, _, _, _)
RECURSIVE downloadList(_, _, _, _, _)
RECURSIVE downloadDict(_, _, _, _, _)

\* variant: the elements of a list go to path, the subdir forgotten
downloadList_noSubdir(st, path, items, subdir, dry) ==
    IF items = <<>> \/ st.raised # "none" THEN st
    ELSE downloadList(
            download(st, PathStr(Path(path)), Head(items).v, None, dry),
            path, Tail(items), subdir, dry)

\* for loc in value: download(f"{Path(path)}/{subdir or ''}", loc)
downloadList(st, path, items, subdir, dry) ==
    IF items = <<>> \/ st.raised # "none" THEN st
    ELSE downloadList(
            download(st, Slash(PathStr(Path(path)), SubdirOrEmpty(subdir)),
                     Head(items).v, None, dry),
            path, Tail(items), subdir, dry)

\* for k, v in value.items(): download(f"{path}/{subdir or ''}", v, subdir=k)
downloadDict(st, path, items, subdir, dry) ==
    IF items = <<>> \/ st.raised # "none" THEN st
    ELSE downloadDict(
            download(st, Slash(path, SubdirOrEmpty(subdir)),
                     Head(items).v, <<Head(items).k>>, dry),
            path, Tail(items), subdir, dry)

\* variant: a string leaf goes under its own subdir
download_keyed(st, path, value, subdir, dry) ==
    IF st.raised # "none" THEN st
    ELSE IF value.t = "list" THEN downloadList(st, path, value.items, subdir, dry)
    ELSE IF value.t = "dict" THEN downloadDict(st, path, value.items, subdir, dry)
    ELSE IF value.t = "str" THEN
        IF ~ StartsWithGs(value.s)
        THEN Logged(st, LogLine("WARNING", "Likely not a File output", value.s, <<>>))
        ELSE download_from_gcs(st, value.s, Path(Slash(Slash(path, SubdirOrEmpty(subdir)), <<PathName(value.s)>>)), dry)
    ELSE IF value.t = "null" THEN
        Logged(st, LogLine("INFO", "Skipping optional output that wasn't defined",
                           IF subdir = None \/ subdir = <<"">> THEN <<>> ELSE subdir,
                           <<>>))
    ELSE Logged(st, LogLine("ERROR", "Don't know how to download type", <<value.t>>, <<>>))

\* variant: None is not told apart from the unrecognized types
download_nullIsError(st, path, value, subdir, dry) ==
    IF st.raised # "none" THEN st
    ELSE IF value.t = "list" THEN downloadList(st, path, value.items, subdir, dry)
    ELSE IF value.t = "dict" THEN downloadDict(st, path, value.items, subdir, dry)
    ELSE IF value.t = "str" THEN
        IF ~ StartsWithGs(value.s)
        THEN Logged(st, LogLine("WARNING", "Likely not a File output", value.s, <<>>))
        ELSE download_from_gcs(st, value.s, Path(Slash(path, <<PathName(value.s)>>)), dry)
    ELSE Logged(st, LogLine("ERROR", "Don't know how to download type", <<value.t>>, <<>>))

\* variant: a string that is no gs:// locator is warned about and fetched all the same
download_attemptsNonGs(st, path, value, subdir, dry) ==
    IF st.raised # "none" THEN st
    ELSE IF value.t = "list" THEN downloadList(st, path, value.items, subdir, dry)
    ELSE IF value.t = "dict" THEN downloadDict(st, path, value.items, subdir, dry)
    ELSE IF value.t = "str" THEN
        IF ~ StartsWithGs(value.s)
        THEN download_from_gcs(
                Logged(st, LogLine("WARNING", "Likely not a File output", value.s, <<>>)),
                value.s, Path(Slash(path, <<PathName(value.s)>>)), dry)
        ELSE download_from_gcs(st, value.s, Path(Slash(path, <<PathName(value.s)>>)), dry)
    ELSE IF value.t = "null" THEN
        Logged(st, LogLine("INFO", "Skipping optional output that wasn't defined",
                           IF subdir = None \/ subdir = <<"">> THEN <<>> ELSE subdir,
                           <<>>))
    ELSE Logged(st, LogLine("ERROR", "Don't know how to download type", <<value.t>>, <<>>))

\* variant: a value of unrecognized type raises
download_raisesOnUnknown(st, path, value, subdir, dry) ==
    IF st.raised # "none" THEN st
    ELSE IF value.t = "list" THEN downloadList(st, path, value.items, subdir, dry)
    ELSE IF value.t = "dict" THEN downloadDict(st, path, value.items, subdir, dry)
    ELSE IF value.t = "str" THEN
        IF ~ StartsWithGs(value.s)
        THEN Logged(st, LogLine("WARNING", "Likely not a File output", value.s, <<>>))
        ELSE download_from_gcs(st, value.s, Path(Slash(path, <<PathName(value.s)>>)), dry)
    ELSE IF value.t = "null" THEN
        Logged(st, LogLine("INFO", "Skipping optional output that wasn't defined",
                           IF subdir = None \/ subdir = <<"">> THEN <<>> ELSE subdir,
                           <<>>))
    ELSE [Logged(st, LogLine("ERROR", "Don't know how to download type", <<value.t>>, <<>>))
            EXCEPT !.raised = "TypeError"]

download(st, path, value, subdir, dry) ==
    IF st.raised # "none" THEN st
    ELSE IF value.t = "list" THEN downloadList(st, path, value.items, subdir, dry)
    ELSE IF value.t = "dict" THEN downloadDict(st, path, value.items, subdir, dry)
    ELSE IF value.t = "str" THEN
        IF ~ StartsWithGs(value.s)
        THEN Logged(st, LogLine("WARNING", "Likely not a File output", value.s, <<>>))
        ELSE download_from_gcs(st, value.s, Path(Slash(path, <<PathName(value.s)>>)), dry)
    ELSE IF value.t = "null" THEN
        Logged(st, LogLine("INFO", "Skipping optional output that wasn't defined",
                           IF subdir = None \/ subdir = <<"">> THEN <<>> ELSE subdir,
                           <<>>))
    ELSE Logged(st, LogLine("ERROR", "Don't know how to download type", <<value.t>>, <<>>))

\* response['outputs'] is the list of (dotted name, value) pairs;
\* output_name = k.split(".")[-1]
RECURSIVE download_outputs(_, _, _, _)
download_outputs(st, outputs, outputs_dir, dry) ==
    IF outputs = <<>> \/ st.raised # "none" THEN st
    ELSE download_outputs(
            download(st, outputs_dir, Head(outputs).v, <<Last(Head(outputs).k)>>, dry),
            Tail(outputs), outputs_dir, dry)

\* ------------------------------------------------------------ json.load
\* The bytes of a file are a list of tokens; the grammar is
\*   value ::= "null" | "1" | "[" "]" | "[" value ("," value)* "]"
RECURSIVE ParseValue(_, _)
RECURSIVE ParseElements(_, _, _)
ParseFail == [ok |-> FALSE, v |-> VNone, n |-> 0]

ParseElements(b, i, acc) ==
    LET r == ParseValue(b, i)
    IN  IF ~ r.ok \/ r.n > Len(b) THEN ParseFail
        ELSE IF b[r.n] = "," THEN ParseElements(b, r.n + 1, Append(acc, r.v))
        ELSE IF b[r.n] = "]" THEN [ok |-> TRUE, v |-> VList(Append(acc, r.v)), n |-> r.n + 1]
        ELSE ParseFail

ParseValue(b, i) ==
    IF i > Len(b) THEN ParseFail
    ELSE IF b[i] = "null" THEN [ok |-> TRUE, v |-> VNull, n |-> i + 1]
    ELSE IF b[i] = "1" THEN [ok |-> TRUE, v |-> VNum, n |-> i + 1]
    ELSE IF b[i] = "[" THEN
        IF i + 1 <= Len(b) /\ b[i + 1] = "]"
        THEN [ok |-> TRUE, v |-> VList(<<>>), n |-> i + 2]
        ELSE ParseElements(b, i + 1, <<>>)
    ELSE ParseFail

\* json.load(f): the value, or JSONDecodeError
json_load(st, b) ==
    LET r == ParseValue(b, 1)
    IN  IF r.ok /\ r.n = Len(b) + 1 THEN [st EXCEPT !.ret = r.v]
        ELSE [st EXCEPT !.raised = "JSONDecodeError"]

\* with open(name) as f: return json.load(f)
open_and_load(st, name) ==
    IF st.raised # "none" THEN st
    ELSE IF Path(name) \in DOMAIN st.fs.files THEN json_load(st, st.fs.files[Path(name)])
    ELSE IF Path(name) \in st.fs.dirs THEN [st EXCEPT !.raised = "IsADirectoryError"]
    ELSE [st EXCEPT !.raised = "FileNotFoundError"]

\* tmpdir is os.environ.get("TMPDIR", "/tmp")
read_json(st, filename, tmpdir, dry) ==
    IF StartsWithGs(filename)
    THEN LET tmpfile == Slash(PathStr(Path(tmpdir)), <<PathName(filename)>>)
         IN  open_and_load(download_from_gcs(st, filename, tmpfile, dry), tmpfile)
    ELSE open_and_load(st, filename)

\* ------------------------------------------------- the inputs enumerated
GsA == <<"gs:", "", "bucket", "a">>
GsA2 == <<"gs:", "", "other", "a">>      \* same basename as GsA
GsB == <<"gs:", "", "bucket", "b">>
Local == <<"data", "a">>                 \* a string that is no gs:// locator

SeqsUpTo(S, n) == UNION {[1..k -> S] : k \in 0..n}
Distinct(s) == \A i, j \in 1..Len(s) : i # j => s[i] # s[j]

Keys == {"a", "s"}
KeySeqs == {ks \in SeqsUpTo(Keys, MaxLen) : Distinct(ks)}

Lists(S) == {VList(vs) : vs \in SeqsUpTo(S, MaxLen)}
Dicts(S) ==
    UNION {{VDict([i \in 1..Len(ks) |-> KV(ks[i], vs[i])]) : vs \in [1..Len(ks) -> S]}
           : ks \in KeySeqs}

Leaves == {VStr(GsA), VStr(GsA2), VStr(Local), VNull, VNum}

\* what the containers of the second level may hold
InnerL ==
    {VStr(GsA), VBool,
     VList(<<VStr(GsB)>>),
     VList(<<VNull, VList(<<>>)>>),
     VDict(<<KV("a", VList(<<VStr(GsB)>>))>>)}
InnerD ==
    {VStr(GsA), VStr(GsB), VNull, VBool,
     VList(<<VStr(GsB)>>),
     VDict(<<KV("", VStr(GsA2))>>),
     VDict(<<KV("s", VList(<<VNull>>))>>)}

Values == Leaves \cup Lists(Leaves) \cup Dicts(Leaves) \cup Lists(InnerL) \cup Dicts(InnerD)

\* dotted output names and the values of a response's "outputs"
OutputNames == {<<"wf", "task", "o">>, <<"wf", "a">>, <<"o">>}
OutputValues ==
    {VStr(GsA), VNull, VNum,
     VList(<<VStr(GsA), VStr(GsB)>>),
     VList(<<VNum, VStr(GsA2)>>),
     VList(<<VStr(GsA2)>>),
     VDict(<<KV("s", VStr(GsA)), KV("a", VStr(GsB))>>)}
Responses ==
    {outs \in SeqsUpTo({KV(k, v) : k \in OutputNames, v \in OutputValues}, 2) :
        \A i, j \in 1..Len(outs) : i # j => outs[i].k # outs[j].k}

OutDir == <<".", "out">>                 \* --outputs-dir ./out
TmpDir == <<"", "tmp">>                  \* "/tmp"

Job(op, path, value, subdir, outputs, src, dest) ==
    [op |-> op, path |-> path, value |-> value, subdir |-> subdir,
     outputs |-> outputs, src |-> src, dest |-> dest]

Jobs ==
    {Job("download", OutDir, v, sd, <<>>, <<>>, <<>>) :
        v \in Values, sd \in {None, <<"o">>}}
    \cup {Job("download_outputs", d, VNone, None, outs, <<>>, <<>>) :
        outs \in Responses, d \in {OutDir}}
    \cup {Job("download_from_gcs", <<>>, VNone, None, <<>>, src, dest) :
        src \in {GsA, GsA2, ManifestGood},
        dest \in {<<"out", "a">>, <<".", "out", "o", "", "a">>, <<"out", "o">>, <<"a">>}}
    \cup {Job("read_json", TmpDir, VNone, None, <<>>, f, <<>>) :
        f \in {ManifestGood, ManifestBad, <<"", "tmp", "manifest.json">>,
               <<"out", "o", "a">>, <<"missing.json">>}}

\* the filesystems a call may start from
NoFS == [files |-> <<>>, dirs |-> {}]
UsedFS ==
    [files |-> (<<"out", "o", "a">> :> <<"old">>) @@ (<<"tmp", "manifest.json">> :> <<"null">>),
     dirs |-> {<<"out">>, <<"out", "o">>, <<"tmp">>}]
BlockedFS ==
    [files |-> (<<"out", "o">> :> <<"old">>), dirs |-> {<<"out">>}]
InitFS == {NoFS, UsedFS, BlockedFS}

\* the gs:// leaves of a value, in traversal order
RECURSIVE GsLeaves(_)
RECURSIVE GsLeavesOf(_)
GsLeavesOf(items) ==
    IF items = <<>> THEN <<>> ELSE GsLeaves(Head(items).v) \o GsLeavesOf(Tail(items))
GsLeaves(value) ==
    IF value.t \in {"list", "dict"} THEN GsLeavesOf(value.items)
    ELSE IF value.t = "str" /\ StartsWithGs(value.s) THEN <<value.s>>
    ELSE <<>>

\* the kind of a leaf: "gs", "string", "null" or "unrecognized"
LeafKind(v) ==
    IF v.t = "str" THEN (IF StartsWithGs(v.s) THEN "gs" ELSE "string")
    ELSE IF v.t = "null" THEN "null"
    ELSE "unrecognized"

RECURSIVE CountLeaves(_, _)
RECURSIVE CountLeavesOf(_, _)
CountLeavesOf(items, kind) ==
    IF items = <<>> THEN 0
    ELSE CountLeaves(Head(items).v, kind) + CountLeavesOf(Tail(items), kind)
CountLeaves(v, kind) ==
    IF v.t \in {"list", "dict"} THEN CountLeavesOf(v.items, kind)
    ELSE IF LeafKind(v) = kind THEN 1 ELSE 0

\* how many exit statuses a call is given: one per string leaf
Copies(j) ==
    IF j.op = "download" THEN CountLeaves(j.value, "gs") + CountLeaves(j.value, "string")
    ELSE IF j.op = "download_outputs"
        THEN CountLeavesOf(j.outputs, "gs") + CountLeavesOf(j.outputs, "string")
    ELSE 1
Oracles(n) == [1..n -> BOOLEAN]

\* the call of job j, from filesystem fs
Call(j, fs, dry, oracle) ==
    IF j.op = "download"
        THEN download(NewRun(fs, oracle), j.path, j.value, j.subdir, dry)
    ELSE IF j.op = "download_outputs"
        THEN download_outputs(NewRun(fs, oracle), j.outputs, j.path, dry)
    ELSE IF j.op = "download_from_gcs"
        THEN download_from_gcs(NewRun(fs, oracle), j.src, j.dest, dry)
    ELSE read_json(NewRun(fs, oracle), j.src, j.path, dry)

\* what is kept of a finished call
Record(st, fs, dry) ==
    [pre |-> fs, dry |-> dry, fs |-> st.fs, log |-> st.log, calls |-> st.calls,
     copies |-> st.copies, mkdirs |-> st.mkdirs, raised |-> st.raised, ret |-> st.ret]

\* --------------------------------------------------------- the machine
Init ==
    /\ job \in Jobs
    /\ \E fs \in InitFS : files = fs.files /\ dirs = fs.dirs
    /\ DRYRUN = DEFAULT_DRYRUN
    /\ pc = "start"
    /\ runs = <<>>

\* __main__: DRYRUN = args.dryrun
Main ==
    /\ pc = "start"
    /\ \E dryrun \in BOOLEAN : DRYRUN' = dryrun
    /\ pc' = "ready"
    /\ UNCHANGED <<job, files, dirs, runs>>

Invoke(op) ==
    /\ pc = "ready"
    /\ job.op = op
    /\ Len(runs) < MaxRuns
    /\ \E oracle \in Oracles(Copies(job)) :
        \E fs \in {[files |-> files, dirs |-> dirs]} :
        \E st \in {Call(job, fs, DRYRUN, oracle)} :
            /\ files' = st.fs.files
            /\ dirs' = st.fs.dirs
            /\ runs' = Append(runs, Record(st, fs, DRYRUN))
            /\ pc' = IF st.raised = "none" THEN "ready" ELSE "crashed"
    /\ UNCHANGED <<job, DRYRUN>>

CallDownload == Invoke("download")
CallDownloadOutputs == Invoke("download_outputs")
CallDownloadFromGcs == Invoke("download_from_gcs")
CallReadJson == Invoke("read_json")

Next ==
    \/ Main
    \/ CallDownload
    \/ CallDownloadOutputs
    \/ CallDownloadFromGcs
    \/ CallReadJson

Spec == Init /\ [][Next]_vars

\* A caller that makes different calls one after the other, on the same
\* filesystem: between two calls the job is replaced by another one.
MixJobs ==
    {Job("download_from_gcs", <<>>, VNone, None, <<>>, src, dest) :
        src \in {GsA, GsA2}, dest \in {<<"out", "o", "a">>, <<".", "out", "", "a">>}}
    \cup {Job("download", OutDir, v, sd, <<>>, <<>>, <<>>) :
        v \in {VStr(GsA2),
               VList(<<VStr(GsA), VStr(GsB)>>),
               VDict(<<KV("a", VList(<<VStr(GsB)>>))>>)},
        sd \in {None, <<"o">>}}

InitMixed ==
    /\ job \in MixJobs
    /\ \E fs \in InitFS : files = fs.files /\ dirs = fs.dirs
    /\ DRYRUN = DEFAULT_DRYRUN
    /\ pc = "start"
    /\ runs = <<>>

Switch ==
    /\ pc = "ready"
    /\ runs # <<>> /\ Len(runs) < MaxRuns
    /\ job' \in MixJobs \ {job}
    /\ UNCHANGED <<files, dirs, DRYRUN, pc, runs>>

NextMixed ==
    \/ Main
    \/ Switch
    \/ CallDownload
    \/ CallDownloadFromGcs

SpecMixed == InitMixed /\ [][NextMixed]_vars

\* ======================================================== the claims
RunIdx == 1..Len(runs)
Finished(r) == r.raised = "none"
IsLeaf(v) == v.t \notin {"list", "dict"}
IsGs(v) == v.t = "str" /\ StartsWithGs(v.s)
CallOf(src, dest) == [src |-> src, dest |-> dest]

\* the calls claimed for the gs:// leaves that a mapping holds directly, the
\* mapping's items going to base: with the key as a directory level or without
RECURSIVE DictLeafCalls(_, _, _)
DictLeafCalls(base, items, withKey) ==
    IF items = <<>> THEN <<>>
    ELSE (IF IsGs(Head(items).v)
          THEN <<CallOf(Head(items).v.s,
                        Path(base \o (IF withKey THEN <<Head(items).k>> ELSE <<>>)
                                  \o <<PathName(Head(items).v.s)>>))>>
          ELSE <<>>)
         \o DictLeafCalls(base, Tail(items), withKey)

DictOfLeaves(v) ==
    /\ v.t = "dict"
    /\ \A i \in 1..Len(v.items) : IsLeaf(v.items[i].v)
    /\ \E i \in 1..Len(v.items) : IsGs(v.items[i].v)

RECURSIVE OutputsDictCalls(_, _, _)
OutputsDictCalls(dir, outputs, withKey) ==
    IF outputs = <<>> THEN <<>>
    ELSE DictLeafCalls(dir \o <<Last(Head(outputs).k)>>, Head(outputs).v.items, withKey)
         \o OutputsDictCalls(dir, Tail(outputs), withKey)

C1Case ==
    \/ job.op = "download" /\ DictOfLeaves(job.value)
    \/ /\ job.op = "download_outputs"
       /\ job.outputs # <<>>
       /\ \A i \in 1..Len(job.outputs) : DictOfLeaves(job.outputs[i].v)

C1Calls(withKey) ==
    IF job.op = "download"
    THEN DictLeafCalls(job.path \o SubdirOrEmpty(job.subdir), job.value.items, withKey)
    ELSE OutputsDictCalls(job.path, job.outputs, withKey)

\* C1 as stated: a gs:// leaf held by a mapping under key k is fetched to
\* path/k/<basename>, so {"wf.task.o": {"s": ".../a", "a": ".../b"}} goes to
\* out/o/s/a and out/o/a/b
C1_KeyIsDirectoryLevel ==
    \A i \in RunIdx : C1Case /\ Finished(runs[i]) => runs[i].calls = C1Calls(TRUE)

\* C1 amended: a gs:// leaf held by a mapping under key k is fetched to
\* path/<basename>; the key of the mapping that holds the leaf is no
\* directory level (only the subdir of the enclosing list or mapping is)
C1_LeafIgnoresItsKey ==
    \A i \in RunIdx : C1Case /\ Finished(runs[i]) => runs[i].calls = C1Calls(FALSE)

C1_Witness ==
    /\ job.op = "download_outputs"
    /\ job.outputs = <<KV(<<"wf", "task", "o">>,
                          VDict(<<KV("s", VStr(GsA)), KV("a", VStr(GsB))>>))>>
    /\ Len(runs) = 1 /\ Finished(runs[1]) /\ ~ runs[1].dry
    /\ runs[1].calls = <<CallOf(GsA, <<"out", "o", "a">>), CallOf(GsB, <<"out", "o", "b">>)>>
    /\ DOMAIN files = {<<"out", "o", "a">>, <<"out", "o", "b">>}

\* ---- C2
ListOfGs(v) ==
    /\ v.t = "list"
    /\ v.items # <<>>
    /\ \A i \in 1..Len(v.items) : IsGs(v.items[i].v)

RECURSIVE ListCalls(_, _)
ListCalls(base, items) ==
    IF items = <<>> THEN <<>>
    ELSE <<CallOf(Head(items).v.s, Path(base \o <<PathName(Head(items).v.s)>>))>>
         \o ListCalls(base, Tail(items))

RECURSIVE OutputsListCalls(_, _)
OutputsListCalls(dir, outputs) ==
    IF outputs = <<>> THEN <<>>
    ELSE (IF ListOfGs(Head(outputs).v)
          THEN ListCalls(dir \o <<Last(Head(outputs).k)>>, Head(outputs).v.items)
          ELSE <<>>)
         \o OutputsListCalls(dir, Tail(outputs))

C2Case ==
    /\ job.op = "download_outputs"
    /\ \E i \in 1..Len(job.outputs) : ListOfGs(job.outputs[i].v)
    /\ \A i \in 1..Len(job.outputs) :
        ListOfGs(job.outputs[i].v) \/ job.outputs[i].v.t \in {"null", "int"}

\* C2: every element of a top-level output that is a list of gs:// locators
\* is fetched to outputs_dir/<output_name>/<basename>, with no directory per
\* element, and nothing else is fetched
C2_ListFlattening ==
    \A i \in RunIdx :
        C2Case /\ Finished(runs[i]) =>
            runs[i].calls = OutputsListCalls(job.path, job.outputs)

C2_Witness ==
    /\ job.op = "download_outputs"
    /\ job.outputs = <<KV(<<"wf", "task", "o">>, VList(<<VStr(GsA), VStr(GsB)>>))>>
    /\ Len(runs) = 1 /\ Finished(runs[1]) /\ ~ runs[1].dry
    /\ runs[1].calls = <<CallOf(GsA, <<"out", "o", "a">>), CallOf(GsB, <<"out", "o", "b">>)>>
    /\ DOMAIN files = {<<"out", "o", "a">>, <<"out", "o", "b">>}

\* ---- C3
RECURSIVE CopiesFrom(_)
CopiesFrom(i) == IF i > Len(runs) THEN <<>> ELSE runs[i].copies \o CopiesFrom(i + 1)
AllCopies == CopiesFrom(1)

C3Case == job.op = "download" /\ ~ DRYRUN /\ Len(runs) >= 2

\* C3 as stated: over two runs of download on the same tree and directory the
\* copy is invoked at most once per destination, whatever the copies' exit
\* statuses, and the second run invokes none
C3_AtMostOncePerDestination ==
    C3Case =>
        LET cs == runs[1].copies \o runs[2].copies
        IN  /\ \A a, b \in 1..Len(cs) : a # b => cs[a].dest # cs[b].dest
            /\ runs[2].copies = <<>>

\* C3 amended: no copy is invoked for a destination after a copy has created
\* the file there; and when every copy of the first run created its file, the
\* second run invokes no copy and reports every leaf as already existing
C3_NoCopyAfterCreation ==
    C3Case =>
        /\ \A a, b \in 1..Len(AllCopies) :
              a < b /\ AllCopies[a].dest = AllCopies[b].dest => ~ AllCopies[a].created
        /\ (Finished(runs[1]) /\ \A a \in 1..Len(runs[1].copies) : runs[1].copies[a].created)
              => /\ runs[2].copies = <<>>
                 /\ \A n \in 1..Len(runs[2].log) :
                       runs[2].log[n].msg # "Downloading"

C3_Witness ==
    /\ C3Case
    /\ job.value = VList(<<VStr(GsA), VStr(GsA2)>>) /\ job.subdir = <<"o">>
    /\ Len(runs[1].copies) = 1 /\ runs[1].copies[1].created
    /\ runs[2].copies = <<>>
    /\ Len(runs[2].log) = 2
    /\ \A n \in 1..2 : runs[2].log[n].msg = "File already exists, skipping download"

\* ---- C4
IsPrefix(p, q) == Len(p) <= Len(q) /\ SubSeq(q, 1, Len(p)) = p
SeparateDests(calls) ==
    \A a, b \in 1..Len(calls) : a # b => ~ IsPrefix(calls[a].dest, calls[b].dest)
SameTrace(n, r) ==
    n.log = r.log /\ n.mkdirs = r.mkdirs /\ n.fs.dirs = r.fs.dirs /\ n.raised = r.raised
AllFail(n) == [i \in 1..n |-> FALSE]

C4Case(i) == runs[i].dry /\ job.op \in {"download_outputs", "download"}

\* C4 as stated: a dry run creates no file and invokes no copy, and makes the
\* directories and writes the log lines of the normal run on the same tree and
\* filesystem, whatever the copies of the normal run do
C4_DryRunSameAsNormal ==
    \A i \in RunIdx :
        C4Case(i) =>
            /\ runs[i].fs.files = runs[i].pre.files
            /\ runs[i].copies = <<>>
            /\ \A oracle \in Oracles(Copies(job)) :
                  SameTrace(Call(job, runs[i].pre, FALSE, oracle), runs[i])

\* C4 amended: a dry run creates no file and invokes no copy; its directories
\* and log lines are those of the normal run in which no copy creates a file,
\* and those of every normal run when no two leaves have the same destination
\* and no destination lies under another
C4_DryRunSameWhenSeparate ==
    \A i \in RunIdx :
        C4Case(i) =>
            /\ runs[i].fs.files = runs[i].pre.files
            /\ runs[i].copies = <<>>
            /\ SameTrace(Call(job, runs[i].pre, FALSE, AllFail(Copies(job))), runs[i])
            /\ SeparateDests(runs[i].calls) =>
                  \A oracle \in Oracles(Copies(job)) :
                      SameTrace(Call(job, runs[i].pre, FALSE, oracle), runs[i])

C4_Witness ==
    /\ job.op = "download_outputs"
    /\ job.outputs = <<KV(<<"wf", "a">>, VList(<<VStr(GsA), VStr(GsB)>>))>>
    /\ Len(runs) = 1 /\ runs[1].dry /\ runs[1].pre = NoFS
    /\ files = <<>>
    /\ dirs = {<<"out">>, <<"out", "a">>}
    /\ Len(runs[1].log) = 2
    /\ \A n \in 1..2 : runs[1].log[n].msg = "Downloading"

\* ---- C5
RECURSIVE OnlyNulls(_)
OnlyNulls(v) ==
    IF v.t \in {"list", "dict"}
    THEN \A i \in 1..Len(v.items) : OnlyNulls(v.items[i].v)
    ELSE v.t = "null"

JobItems == IF job.op = "download" THEN <<KV("", job.value)>> ELSE job.outputs
C5Case ==
    /\ job.op \in {"download", "download_outputs"}
    /\ \A i \in 1..Len(JobItems) : OnlyNulls(JobItems[i].v)

\* C5: on a tree of lists, mappings and nulls only, download writes nothing to
\* the filesystem, invokes no copy, raises nothing, and logs exactly one
\* informational "skipped optional output" line per null leaf
C5_NullsOnlyWriteNothing ==
    \A i \in RunIdx :
        C5Case =>
            /\ runs[i].fs = runs[i].pre
            /\ runs[i].mkdirs = <<>> /\ runs[i].calls = <<>> /\ runs[i].copies = <<>>
            /\ Finished(runs[i])
            /\ Len(runs[i].log) = CountLeavesOf(JobItems, "null")
            /\ \A n \in 1..Len(runs[i].log) :
                  /\ runs[i].log[n].level = "INFO"
                  /\ runs[i].log[n].msg = "Skipping optional output that wasn't defined"

C5_Witness ==
    /\ job.op = "download_outputs"
    /\ job.outputs = <<KV(<<"wf", "task", "o">>, VNull)>>
    /\ Len(runs) = 1 /\ runs[1].pre = NoFS /\ ~ runs[1].dry
    /\ files = <<>> /\ dirs = {}
    /\ runs[1].log = <<LogLine("INFO", "Skipping optional output that wasn't defined",
                               <<"o">>, <<>>)>>

C5_WitnessNested ==
    /\ job.op = "download"
    /\ job.value = VList(<<VList(<<VNull, VList(<<>>)>>), VList(<<VNull, VList(<<>>)>>)>>)
    /\ Len(runs) = 1 /\ Len(runs[1].log) = 2

\* ---- C6
LinesAt(log, level) == Cardinality({n \in 1..Len(log) : log[n].level = level})
Sources(calls) == [n \in 1..Len(calls) |-> calls[n].src]

\* C6 as stated: a string leaf without the gs:// prefix is warned about and
\* still handed to download_from_gcs, with destination
\* base_path/<subdir or empty>/<basename>
C6_NonGsStillAttempted ==
    \A i \in RunIdx :
        job.op = "download" /\ job.value = VStr(Local) /\ Finished(runs[i]) =>
            /\ LinesAt(runs[i].log, "WARNING") = 1
            /\ runs[i].calls =
                  <<CallOf(Local, Path(job.path \o SubdirOrEmpty(job.subdir)
                                                \o <<PathName(Local)>>))>>

\* C6 amended: a string leaf without the gs:// prefix is warned about and
\* skipped: one warning per such leaf, download_from_gcs is called for the
\* gs:// leaves only, and a tree without gs:// leaves leaves the filesystem as
\* it was
C6_NonGsWarnedAndSkipped ==
    \A i \in RunIdx :
        /\ job.op = "download"
        /\ CountLeaves(job.value, "string") > 0
        /\ Finished(runs[i])
        => /\ LinesAt(runs[i].log, "WARNING") = CountLeaves(job.value, "string")
           /\ Sources(runs[i].calls) = GsLeaves(job.value)
           /\ GsLeaves(job.value) = <<>> => runs[i].fs = runs[i].pre

C6_Witness ==
    /\ job.op = "download"
    /\ job.value = VList(<<VStr(Local), VStr(GsA)>>) /\ job.subdir = <<"o">>
    /\ Len(runs) = 1 /\ Finished(runs[1]) /\ runs[1].pre = NoFS
    /\ runs[1].log[1] = LogLine("WARNING", "Likely not a File output", Local, <<>>)
    /\ runs[1].calls = <<CallOf(GsA, <<"out", "o", "a">>)>>
    /\ <<"out", "o", "a">> \in DOMAIN files

\* ---- C7
\* read_json on a local file that holds the bytes of the remote object
LocalCopy(src, dry) ==
    read_json(NewRun([files |-> (<<"copy.json">> :> RemoteBytes(src)), dirs |-> {}], <<>>),
              <<"copy.json">>, job.path, dry)

\* C7: read_json of a gs:// path fetches the object to <TMPDIR>/<basename> and
\* returns (or raises) what read_json of a local copy of the same bytes does,
\* whatever the temp directory holds and whatever the dry-run flag is (no
\* copy failing)
C7_RemoteJsonAsLocal ==
    \A i \in RunIdx :
        /\ job.op = "read_json" /\ StartsWithGs(job.src)
        /\ \A n \in 1..Len(runs[i].copies) : runs[i].copies[n].ok
        =>  /\ runs[i].calls = <<CallOf(job.src, <<"tmp", PathName(job.src)>>)>>
            /\ runs[i].ret = LocalCopy(job.src, runs[i].dry).ret
            /\ runs[i].raised = LocalCopy(job.src, runs[i].dry).raised

\* ---- C8
\* C8: the copy is never invoked for a destination that is a regular file, and
\* every file that existed before a call, or before the whole sequence of
\* calls, still exists afterwards with the content it had
C8_ExistingFilesKept ==
    /\ \A i \in RunIdx :
          /\ \A n \in 1..Len(runs[i].copies) : ~ runs[i].copies[n].existed
          /\ \A p \in DOMAIN runs[i].pre.files :
                p \in DOMAIN runs[i].fs.files /\ runs[i].fs.files[p] = runs[i].pre.files[p]
    /\ runs # <<>> =>
          \A p \in DOMAIN runs[1].pre.files :
              p \in DOMAIN files /\ files[p] = runs[1].pre.files[p]

C8_Witness ==
    /\ Len(runs) = 2 /\ ~ DRYRUN
    /\ runs[1].pre = UsedFS
    /\ Len(runs[1].copies) = 1 /\ runs[1].copies[1].created
    /\ runs[1].copies[1].src = GsA2 /\ runs[1].copies[1].dest = <<"out", "a">>
    /\ job.op = "download" /\ job.value = VList(<<VStr(GsA), VStr(GsB)>>)
    /\ runs[2].log[1] = LogLine("INFO", "File already exists, skipping download",
                                GsA, <<"out", "o", "a">>)
    /\ Len(runs[2].copies) = 1 /\ runs[2].copies[1].dest = <<"out", "o", "b">>
    /\ files[<<"out", "o", "a">>] = <<"old">>
    /\ files[<<"out", "a">>] = RemoteBytes(GsA2)

\* ---- C9
RECURSIVE Strip(_)
RECURSIVE StripItems(_)
StripItems(items) ==
    IF items = <<>> THEN <<>>
    ELSE IF LeafKind(Head(items).v) = "unrecognized" /\ IsLeaf(Head(items).v)
         THEN StripItems(Tail(items))
    ELSE <<KV(Head(items).k, Strip(Head(items).v))>> \o StripItems(Tail(items))
Strip(v) ==
    IF v.t \in {"list", "dict"} THEN [v EXCEPT !.items = StripItems(v.items)] ELSE v

\* the job without its leaves of unrecognized type
StrippedJob ==
    IF job.op = "download_outputs" THEN [job EXCEPT !.outputs = StripItems(job.outputs)]
    ELSE IF IsLeaf(job.value) THEN [job EXCEPT !.value = VList(<<>>)]
    ELSE [job EXCEPT !.value = Strip(job.value)]

\* the exit statuses run r consumed, continued with successes
UsedOracle(r) ==
    [n \in 1..Copies(job) |-> IF n <= Len(r.copies) THEN r.copies[n].ok ELSE TRUE]

RECURSIVE WithoutErrors(_)
WithoutErrors(log) ==
    IF log = <<>> THEN <<>>
    ELSE IF Head(log).level = "ERROR" THEN WithoutErrors(Tail(log))
    ELSE <<Head(log)>> \o WithoutErrors(Tail(log))

C9Case ==
    /\ job.op \in {"download", "download_outputs"}
    /\ CountLeavesOf(JobItems, "unrecognized") > 0

\* C9: a leaf of unrecognized type is logged as an error and nothing more:
\* the calls of download_from_gcs, the copies, the filesystem, the exception
\* (if any) and the other log lines are those of the same call on the tree
\* without the unrecognized leaves
C9_UnrecognizedLeafSkipped ==
    \A i \in RunIdx :
        C9Case =>
            LET twin == Call(StrippedJob, runs[i].pre, runs[i].dry, UsedOracle(runs[i]))
            IN  /\ LinesAt(runs[i].log, "ERROR") >= 1 \/ ~ Finished(runs[i])
                /\ Finished(runs[i]) =>
                      Len(runs[i].log) - Len(WithoutErrors(runs[i].log))
                          = CountLeavesOf(JobItems, "unrecognized")
                /\ runs[i].calls = twin.calls
                /\ runs[i].copies = twin.copies
                /\ runs[i].fs = twin.fs
                /\ runs[i].raised = twin.raised
                /\ WithoutErrors(runs[i].log) = twin.log

C9_Witness ==
    /\ job.op = "download_outputs"
    /\ job.outputs = <<KV(<<"wf", "task", "o">>, VNum),
                       KV(<<"wf", "a">>, VList(<<VNum, VStr(GsA2)>>))>>
    /\ Len(runs) = 1 /\ Finished(runs[1]) /\ runs[1].pre = NoFS
    /\ LinesAt(runs[1].log, "ERROR") = 2
    /\ runs[1].calls = <<CallOf(GsA2, <<"out", "a", "a">>)>>
    /\ DOMAIN files = {<<"out", "a", "a">>}

\* ---- C10
\* C10: whatever the exit statuses of the copies, download_outputs (here from
\* an empty filesystem) ends without raising and has called download_from_gcs
\* once for each gs:// leaf, in traversal order
C10_RunNeverStops ==
    \A i \in RunIdx :
        job.op = "download_outputs" /\ i = 1 /\ runs[i].pre = NoFS =>
            /\ Finished(runs[i])
            /\ Sources(runs[i].calls) = GsLeavesOf(job.outputs)

====
